---- MODULE Spec2Model ----
(***************************************************************************)
(* PolicyRetriever (src/langgraph_tutorials/customer_support/policy.py):   *)
(* an in-memory retriever that starts empty, is filled by initialize()     *)
(* (fetch the FAQ text, split it into sections, embed them, store the      *)
(* documents and the matrix) and answers query(query, k) by a top-k        *)
(* selection over dot-product scores.                                      *)
(*                                                                         *)
(* Text is a sequence of one-character strings.  Embedding components are  *)
(* integers: the stub vectors [1,0], [0,1], [0.9,0.1] are scaled by 10, so *)
(* that every dot product is exact.  Positions are 1-based: position i of  *)
(* a sequence is the element Python calls index i-1.                       *)
(***************************************************************************)
EXTENDS Integers, Sequences, FiniteSets, TLC

\* The largest number of sections of a fetched text.
MaxSections == 3

\* The default k of query (policy.py:60) and of as_tool (policy.py:93).
QueryDefaultK == 5
ToolDefaultK == 2

Max(a, b) == IF a >= b THEN a ELSE b
Min(a, b) == IF a <= b THEN a ELSE b

\* Optional values: None, or a held value.
None == [some |-> FALSE, val |-> <<>>]
Some(x) == [some |-> TRUE, val |-> x]

(***************************************************************************)
(* The external collaborators' answers.                                    *)
(***************************************************************************)
\* The heading marker the split looks for: "\n##".
Heading == <<"\n", "#", "#">>

\* The bodies of the headed sections of a text with j of them: all "b", or
\* "b" and "c" in turn.
Bodies(j) ==
    { [i \in 1 .. j |-> "b"],
      [i \in 1 .. j |-> IF i % 2 = 1 THEN "b" ELSE "c"] }

RECURSIVE Sections(_, _)
Sections(bodies, i) ==
    IF i > Len(bodies) THEN <<>>
    ELSE Heading \o <<bodies[i]>> \o Sections(bodies, i + 1)

\* The texts requests.get may deliver: an optional preamble, then up to
\* MaxSections - 1 headed sections.  The empty text is one of them.
Texts ==
    UNION { { first \o Sections(bodies, 1) :
                first \in {<<>>, <<"a">>}, bodies \in Bodies(j) } :
            j \in 0 .. (MaxSections - 1) }

\* The vectors the embedding model may return: the stub vectors (times 10).
Vectors == { <<10, 0>>, <<0, 10>>, <<9, 1>> }

\* A vector of another dimension: a malformed answer of the model.
ShortVector == <<10>>

\* An embedding model is a function of the text.  The models the retriever
\* may be talking to tell texts apart by their last character ("" for the
\* empty text): the stub model of the scenario, a model that embeds every
\* text alike, and a third one.
Key(text) == IF text = <<>> THEN "" ELSE text[Len(text)]

StubModel(text) ==
    CASE Key(text) = "b" -> <<0, 10>>
      [] Key(text) = "c" -> <<9, 1>>
      [] OTHER -> <<10, 0>>

FlatModel(text) == <<10, 0>>

OtherModel(text) ==
    CASE Key(text) = "a" -> <<0, 10>>
      [] Key(text) = "c" -> <<10, 0>>
      [] OTHER -> <<9, 1>>

\* What embed_documents may return for the given texts (when it does not
\* raise): one vector per text from one of the models, or a malformed answer
\* in which all vectors, or all but the first, are short.
EmbedDocuments(contents) ==
    LET n == Len(contents) IN
    { [i \in 1 .. n |-> StubModel(contents[i])],
      [i \in 1 .. n |-> FlatModel(contents[i])],
      [i \in 1 .. n |-> OtherModel(contents[i])],
      [i \in 1 .. n |-> ShortVector],
      [i \in 1 .. n |-> IF i = 1 THEN <<10, 0>> ELSE ShortVector] }

\* What embed_query may return (when it does not raise).
EmbedQuery == { <<10, 0>>, <<0, 10>> }

\* The values of k a caller passes, the two defaults among them.
Ks == ((0 - 1) .. (MaxSections + 1)) \cup {QueryDefaultK, ToolDefaultK}

(***************************************************************************)
(* initialize: the pure steps.                                             *)
(***************************************************************************)
\* Whether "\n##" starts at position i of t: the lookahead of the pattern.
HeadingAt(t, i) ==
    /\ i + 2 <= Len(t)
    /\ t[i] = "\n" /\ t[i + 1] = "#" /\ t[i + 2] = "#"

\* re.split(r"(?=\n##)", t): cut before every heading; the piece before a
\* heading at the very start is the empty string, and a text without a
\* heading is one piece.
RECURSIVE SplitFrom(_, _, _)
SplitFrom(t, start, i) ==
    IF i > Len(t) THEN << SubSeq(t, start, Len(t)) >>
    ELSE IF HeadingAt(t, i) THEN << SubSeq(t, start, i - 1) >> \o SplitFrom(t, i, i + 1)
    ELSE SplitFrom(t, start, i + 1)

Split(t) == SplitFrom(t, 1, 1)

\* docs = [{"page_content": section} for section in re.split(...)]
MakeDocs(t) == [i \in 1 .. Len(Split(t)) |-> [page_content |-> Split(t)[i]]]

\* np.array(vectors) raises ValueError (inhomogeneous shape) when the
\* vectors do not all have the same length.
Inhomogeneous(vectors) ==
    \E i, j \in 1 .. Len(vectors) : Len(vectors[i]) # Len(vectors[j])

\* np.array(vectors) otherwise: the matrix whose row i is vectors[i].
NpArray(vectors) == vectors

\* self._docs = docs: the new list takes the place of whatever was held.
StoreDocs(old, new) == Some(new)

\* self._arr = np.array(vectors): likewise for the matrix.
StoreArr(old, vectors) == Some(NpArray(vectors))

(***************************************************************************)
(* query: the pure steps.                                                  *)
(***************************************************************************)
\* A guard that looks at the documents only.
NotInitializedDocsOnly(d, a) == ~d.some

\* The guard of query: either field is None.
NotInitialized(d, a) == (~d.some) \/ (~a.some)

RECURSIVE DotFrom(_, _, _)
DotFrom(u, v, i) == IF i > Len(u) THEN 0 ELSE u[i] * v[i] + DotFrom(u, v, i + 1)

Dot(u, v) == DotFrom(u, v, 1)

\* query_vector @ arr.T is defined when the query vector has as many
\* components as the matrix has columns; otherwise matmul raises ValueError.
MatmulDefined(qv, a) == \A i \in 1 .. Len(a) : Len(a[i]) = Len(qv)

\* scores = query_vector @ self._arr.T: one score per row of the matrix.
Scores(qv, a) == [i \in 1 .. Len(a) |-> Dot(qv, a[i])]

\* numpy's normalisation of a negative kth, as an index 0 .. n-1.
NormKth(n, kth) == IF kth < 0 THEN kth + n ELSE kth

\* np.argpartition(scores, -k) raises ValueError when kth is out of bounds.
KthInBounds(n, k) == NormKth(n, 0 - k) >= 0 /\ NormKth(n, 0 - k) < n

\* np.argpartition(scores, -k): an index array with the kth smallest score at
\* position kth, no larger score before it and no smaller one after it.  The
\* order within the two sides, and which of several equal scores lands on
\* which side, is left to the selection algorithm (introselect, or a SIMD
\* selection, depending on the build): every such array is a possible result.
ArgPartition(scores, k) ==
    LET n == Len(scores)
        kth == NormKth(n, 0 - k) + 1
    IN  { p \in Permutations(1 .. n) :
            \A i \in 1 .. n :
                /\ i < kth => scores[p[i]] <= scores[p[kth]]
                /\ i > kth => scores[p[i]] >= scores[p[kth]] }

\* p[:k]: the first k elements of the partition, not the last.
HeadSlice(p, k) == SubSeq(p, 1, Min(Max(k, 0), Len(p)))

\* p[-k:] as Python slices it: the last k elements for k > 0, the elements
\* from index -k on for k <= 0 (all of them for k = 0).
TailSlice(p, k) ==
    LET n == Len(p)
        start == IF 0 - k < 0 THEN Max(n - k, 0) ELSE Min(0 - k, n)
    IN  SubSeq(p, start + 1, n)

\* Insert index x into a list sorted by descending score, after the entries
\* of equal score.
RECURSIVE InsertDesc(_, _, _)
InsertDesc(sorted, x, scores) ==
    IF sorted = <<>> THEN <<x>>
    ELSE IF scores[Head(sorted)] >= scores[x]
         THEN <<Head(sorted)>> \o InsertDesc(Tail(sorted), x, scores)
         ELSE <<x>> \o sorted

\* The selected indices by ascending score: argsort of scores, not of -scores.
RECURSIVE ArgSortAsc(_, _)
ArgSortAsc(idx, scores) ==
    IF idx = <<>> THEN <<>>
    ELSE LET rest == ArgSortAsc(SubSeq(idx, 1, Len(idx) - 1), scores)
             x == idx[Len(idx)]
             before == SelectSeq(rest, LAMBDA y : scores[y] <= scores[x])
             after == SelectSeq(rest, LAMBDA y : scores[y] > scores[x])
         IN  before \o <<x>> \o after

\* top_k_idx[np.argsort(-scores[top_k_idx])]: the selected indices by
\* descending score; equal scores keep the order they have in top_k_idx.
RECURSIVE ArgSortDesc(_, _)
ArgSortDesc(idx, scores) ==
    IF idx = <<>> THEN <<>>
    ELSE InsertDesc(ArgSortDesc(SubSeq(idx, 1, Len(idx) - 1), scores),
                    idx[Len(idx)], scores)

\* The arrays top_k_idx_sorted may be.
TopKIdxSorted(scores, k) ==
    { ArgSortDesc(TailSlice(p, k), scores) : p \in ArgPartition(scores, k) }

\* [{**self._docs[idx], "similarity": scores[idx]} for idx in top_k_idx_sorted]
MakeResult(d, scores, idx) ==
    [i \in 1 .. Len(idx) |->
        [page_content |-> d[idx[i]].page_content, similarity |-> scores[idx[i]]]]

(***************************************************************************)
(* The retriever's state.                                                  *)
(***************************************************************************)
VARIABLES
    docs,       \* self._docs: None, or the list of documents
    arr,        \* self._arr: None, or the matrix of embeddings
    last,       \* the last call and how it ended
    lastInit,   \* whether the most recent initialize call returned normally,
                \* and the inputs of the most recent one that did
    everOk,     \* whether some initialize call has returned normally
    thr         \* two threads' positions and locals, when calls overlap

vars == <<docs, arr, last, lastInit, everOk, thr>>

NoCall == [op |-> "construct", outcome |-> "ok", k |-> 0, qv |-> <<>>,
           idx |-> <<>>, result |-> <<>>]

InitCall(outcome) == [NoCall EXCEPT !.op = "initialize", !.outcome = outcome]

QueryCall(outcome, k, qv, idx, result) ==
    [op |-> "query", outcome |-> outcome, k |-> k, qv |-> qv,
     idx |-> idx, result |-> result]

NoInit == [ok |-> FALSE, docs |-> <<>>, vectors |-> <<>>]

\* Both threads outside any call.
NoThreads ==
    [ipc |-> "idle", in |-> [docs |-> <<>>, vectors |-> <<>>],
     qpc |-> "idle", k |-> 0, qv |-> <<>>,
     arrRead |-> <<>>, scores |-> <<>>, docsRead |-> <<>>]

\* __init__: both fields None.
Init ==
    /\ docs = None
    /\ arr = None
    /\ last = NoCall
    /\ lastInit = NoInit
    /\ everOk = FALSE
    /\ thr = NoThreads

\* initialize() raises before anything is stored: requests.get or
\* raise_for_status raises (HTTPError), or embed_documents raises.
InitializeRaisesEarly ==
    \E outcome \in {"HTTPError", "ProviderError"} :
        /\ last' = InitCall(outcome)
        /\ lastInit' = [lastInit EXCEPT !.ok = FALSE]
        /\ UNCHANGED <<docs, arr, everOk, thr>>

\* What an initialize() call that gets as far as storing has in hand: the
\* documents split from a fetched text, and the vectors embed_documents
\* returned for their contents.
Fetched ==
    UNION { { [docs |-> MakeDocs(t), vectors |-> v] :
                v \in EmbedDocuments([i \in 1 .. Len(MakeDocs(t)) |->
                                        MakeDocs(t)[i].page_content]) } :
            t \in Texts }

\* initialize() from the embedding on: self._docs = docs, then
\* self._arr = np.array(vectors), which raises on inhomogeneous vectors.
InitializeStores ==
    \E in \in Fetched :
        /\ docs' = StoreDocs(docs, in.docs)
        /\ IF Inhomogeneous(in.vectors)
           THEN /\ arr' = arr
                /\ last' = InitCall("ValueError")
                /\ lastInit' = [lastInit EXCEPT !.ok = FALSE]
                /\ everOk' = everOk
           ELSE /\ arr' = StoreArr(arr, in.vectors)
                /\ last' = InitCall("ok")
                /\ lastInit' = [ok |-> TRUE, docs |-> in.docs,
                                vectors |-> in.vectors]
                /\ everOk' = TRUE
        /\ UNCHANGED thr

Initialize == InitializeRaisesEarly \/ InitializeStores

\* Lines 86-91 of query, given the scores: the calls it may end as.  The
\* read of self._docs[idx] raises IndexError past the end of the list.
ResultCalls(d, scores, qv, k) ==
    IF ~KthInBounds(Len(scores), k)
    THEN { QueryCall("ValueError", k, qv, <<>>, <<>>) }
    ELSE { IF \E i \in 1 .. Len(idx) : idx[i] > Len(d.val)
           THEN QueryCall("IndexError", k, qv, idx, <<>>)
           ELSE QueryCall("ok", k, qv, idx, MakeResult(d.val, scores, idx)) :
           idx \in TopKIdxSorted(scores, k) }

\* What query(query, k) does once the guard has passed and embed_query has
\* returned qv: the calls it may end as.
QueryCalls(d, a, qv, k) ==
    IF ~a.some
    THEN { QueryCall("AttributeError", k, qv, <<>>, <<>>) }
    ELSE IF ~MatmulDefined(qv, a.val)
    THEN { QueryCall("ValueError", k, qv, <<>>, <<>>) }
    ELSE ResultCalls(d, Scores(qv, a.val), qv, k)

\* A query that gives up the held corpus and matrix when embed_query raises.
QueryResettingOnError ==
    \E k \in Ks :
        IF NotInitialized(docs, arr)
        THEN /\ last' = QueryCall("RuntimeError", k, <<>>, <<>>, <<>>)
             /\ UNCHANGED <<docs, arr, lastInit, everOk, thr>>
        ELSE \/ /\ last' = QueryCall("ProviderError", k, <<>>, <<>>, <<>>)
                /\ docs' = None
                /\ arr' = None
                /\ UNCHANGED <<lastInit, everOk, thr>>
             \/ /\ \E qv \in EmbedQuery : last' \in QueryCalls(docs, arr, qv, k)
                /\ UNCHANGED <<docs, arr, lastInit, everOk, thr>>

\* query(query, k), whole.
Query ==
    /\ \E k \in Ks :
        IF NotInitialized(docs, arr)
        THEN last' = QueryCall("RuntimeError", k, <<>>, <<>>, <<>>)
        ELSE \/ last' = QueryCall("ProviderError", k, <<>>, <<>>, <<>>)
             \/ \E qv \in EmbedQuery : last' \in QueryCalls(docs, arr, qv, k)
    /\ UNCHANGED <<docs, arr, lastInit, everOk, thr>>

Next == Initialize \/ Query

Spec == Init /\ [][Next]_vars

(***************************************************************************)
(* Overlapping calls: one thread runs initialize(), another runs query(),  *)
(* and a thread switch may fall between any two statements that touch      *)
(* self._docs or self._arr.  Nothing in the class takes a lock.  The       *)
(* embedding model answers well here, so every initialize() runs to its    *)
(* end.                                                                    *)
(***************************************************************************)
\* What the overlapping initialize calls have in hand: texts with the
\* preamble and "b" sections, embedded by the stub model.
ConcFetched ==
    { in \in Fetched :
        /\ Len(in.docs) >= 1
        /\ in.docs[1].page_content = <<"a">>
        /\ \A i \in 1 .. Len(in.docs) :
              /\ in.vectors[i] = StubModel(in.docs[i].page_content)
              /\ Key(in.docs[i].page_content) \in {"a", "b"} }

ConcKs == {1, ToolDefaultK}

\* Lines 44-54 of initialize(): fetch, split and embed; nothing is stored.
ConcInitializeBegin ==
    /\ thr.ipc = "idle"
    /\ \E in \in ConcFetched : thr' = [thr EXCEPT !.ipc = "docs", !.in = in]
    /\ UNCHANGED <<docs, arr, last, lastInit, everOk>>

\* Line 56: self._docs = docs.
ConcInitializeStoreDocs ==
    /\ thr.ipc = "docs"
    /\ docs' = StoreDocs(docs, thr.in.docs)
    /\ thr' = [thr EXCEPT !.ipc = "arr"]
    /\ UNCHANGED <<arr, last, lastInit, everOk>>

\* Line 57: self._arr = np.array(vectors); the call returns.
ConcInitializeStoreArr ==
    /\ thr.ipc = "arr"
    /\ arr' = StoreArr(arr, thr.in.vectors)
    /\ thr' = [thr EXCEPT !.ipc = "idle", !.in = NoThreads.in]
    /\ UNCHANGED <<docs, last, lastInit, everOk>>

\* Lines 73-84 of query(): the guard, then embed_query.
ConcQueryBegin ==
    /\ thr.qpc = "idle"
    /\ \E k \in ConcKs :
        IF NotInitialized(docs, arr)
        THEN /\ last' = QueryCall("RuntimeError", k, <<>>, <<>>, <<>>)
             /\ thr' = thr
        ELSE /\ thr' = [thr EXCEPT !.qpc = "scores", !.k = k, !.qv = <<10, 0>>]
             /\ last' = last
    /\ UNCHANGED <<docs, arr, lastInit, everOk>>

\* Line 85: scores = query_vector @ self._arr.T, from the matrix held now.
ConcQueryScores ==
    /\ thr.qpc = "scores"
    /\ thr' = [thr EXCEPT !.qpc = "select", !.arrRead = arr.val,
                          !.scores = Scores(thr.qv, arr.val)]
    /\ UNCHANGED <<docs, arr, last, lastInit, everOk>>

\* Lines 86-91: the selection, then the documents held now; the call ends.
ConcQueryReturn ==
    /\ thr.qpc = "select"
    /\ last' \in ResultCalls(docs, thr.scores, thr.qv, thr.k)
    /\ thr' = [thr EXCEPT !.qpc = "idle", !.docsRead = docs.val]
    /\ UNCHANGED <<docs, arr, lastInit, everOk>>

NextConc ==
    \/ ConcInitializeBegin
    \/ ConcInitializeStoreDocs
    \/ ConcInitializeStoreArr
    \/ ConcQueryBegin
    \/ ConcQueryScores
    \/ ConcQueryReturn

SpecConc == Init /\ [][NextConc]_vars

(***************************************************************************)
(* Properties.                                                             *)
(***************************************************************************)
\* Both fields are held.
Ready == docs.some /\ arr.some

\* Ready with as many matrix rows as documents.
Holding(n) == Ready /\ Len(docs.val) = n /\ Len(arr.val) = n

\* The last call was a query that got its query vector and found the matrix
\* of the query vector's dimension, on a retriever holding n documents.
QueriedHolding(n) ==
    /\ last.op = "query"
    /\ last.outcome # "ProviderError"
    /\ Holding(n)
    /\ MatmulDefined(last.qv, arr.val)

\* C1: as long as no initialize call has returned normally, every query
\* raises the not-initialized RuntimeError; it never returns a result list,
\* empty or not.
C1_QueryBeforeInitializeRaises ==
    (last.op = "query" /\ ~everOk) =>
        (last.outcome = "RuntimeError" /\ last.result = <<>>)

\* C1 happens: a query raised RuntimeError on a retriever no initialize had
\* completed on, although a failed initialize had stored its documents.
C1_Witness ==
    /\ last.op = "query"
    /\ ~everOk
    /\ docs.some
    /\ last.outcome = "RuntimeError"

\* C2, as claimed: an initialize call that raises leaves self._docs and
\* self._arr exactly as they were.
C2_FailedInitializeKeepsState ==
    [][(last'.op = "initialize" /\ last'.outcome # "ok")
         => (docs' = docs /\ arr' = arr)]_vars

\* C3, as claimed: on a retriever holding n documents a query with k > n
\* succeeds and returns exactly n results.
C3_LargeKIsClamped ==
    \A n \in 1 .. MaxSections :
        (QueriedHolding(n) /\ last.k > n) =>
            (last.outcome = "ok" /\ Len(last.result) = n)

\* C4, as claimed: on a retriever holding n documents a query with k <= 0
\* raises (ValueError is the code's invalid-argument error) and returns no
\* result list.
C4_NonPositiveKRaises ==
    \A n \in 1 .. MaxSections :
        (QueriedHolding(n) /\ last.k <= 0) =>
            (last.outcome = "ValueError" /\ last.result = <<>>)

\* C5: on a retriever holding n >= 1 documents, a successful query with
\* 1 <= k <= n returns exactly k results, no two for the same index, each
\* with a similarity >= that of the next.
C5_ExactlyKDistinctDescending ==
    \A n \in 1 .. MaxSections :
        (QueriedHolding(n) /\ last.outcome = "ok" /\ 1 <= last.k /\ last.k <= n) =>
            /\ Len(last.result) = last.k
            /\ Len(last.idx) = last.k
            /\ \A i, j \in 1 .. Len(last.idx) :
                    last.idx[i] = last.idx[j] => i = j
            /\ \A i \in 1 .. Len(last.result) - 1 :
                    last.result[i].similarity >= last.result[i + 1].similarity

\* C5 happens: a query with 1 < k < n succeeded on three documents of three
\* different scores, and left out the lowest.
C5_Witness ==
    /\ QueriedHolding(3)
    /\ last.outcome = "ok"
    /\ last.k = 2
    /\ last.result[1].similarity > last.result[2].similarity
    /\ \E i \in 1 .. 3 : Scores(last.qv, arr.val)[i] < last.result[2].similarity

\* C6, as claimed: documents of equal score are returned lower index first,
\* and of several documents tied at the k-th place those of lower index are
\* the ones returned.
C6_TiesByAscendingIndex ==
    \A n \in 1 .. MaxSections :
        (QueriedHolding(n) /\ last.outcome = "ok" /\ 1 <= last.k /\ last.k <= n) =>
            LET scores == Scores(last.qv, arr.val)
                chosen == { last.idx[i] : i \in 1 .. Len(last.idx) }
            IN  /\ \A i, j \in 1 .. Len(last.idx) :
                        (i < j /\ scores[last.idx[i]] = scores[last.idx[j]])
                            => last.idx[i] < last.idx[j]
                /\ \A x \in chosen, y \in (1 .. n) \ chosen :
                        scores[x] = scores[y] => x < y

\* C7, as claimed: when an initialize call returns normally, the stored
\* documents and matrix are exactly that call's documents and vectors; and
\* once some initialize call has returned normally, every later successful
\* query (with a k from 1 to the number of rows) returns the contents and
\* the scores of the most recent initialize call that returned normally,
\* index for index.
C7_QueriesSeeLastCompletedInitialize ==
    /\ (last.op = "initialize" /\ last.outcome = "ok") =>
            /\ docs = Some(lastInit.docs)
            /\ arr = Some(NpArray(lastInit.vectors))
    /\ (/\ everOk
        /\ last.op = "query"
        /\ last.outcome = "ok"
        /\ 1 <= last.k
        /\ last.k <= Len(arr.val)) =>
            /\ Len(last.result) = Len(last.idx)
            /\ \A i \in 1 .. Len(last.idx) :
                /\ last.idx[i] \in 1 .. Len(lastInit.docs)
                /\ last.result[i].page_content
                        = lastInit.docs[last.idx[i]].page_content
                /\ last.result[i].similarity
                        = Dot(last.qv, lastInit.vectors[last.idx[i]])

\* C9, as claimed: the documents and the matrix are both absent or both
\* present, and when present the matrix has one row per document, the
\* vectors one embed_documents call returned for these documents.
C9_CorpusMatchesMatrix ==
    /\ docs.some <=> arr.some
    /\ Ready =>
        /\ Len(docs.val) = Len(arr.val)
        /\ \E in \in Fetched : in.docs = docs.val /\ NpArray(in.vectors) = arr.val

C8_QueryReadsOnePublishedPair ==
    (thr.qpc = "idle" /\ last.op = "query" /\ last.outcome \in {"ok", "IndexError"}) =>
        /\ Len(thr.docsRead) = Len(thr.arrRead)
        /\ \E in \in ConcFetched :
                in.docs = thr.docsRead /\ NpArray(in.vectors) = thr.arrRead

\* C11: a query call, however it ends (a result, the not-initialized
\* RuntimeError, a failure of embed_query, any other error), leaves
\* self._docs and self._arr, and with them the Empty/Ready state, as they
\* were; so two queries with no initialize between them read the same
\* corpus and matrix.
C11_QueryIsReadOnly ==
    [][(last'.op = "query") =>
            /\ docs' = docs
            /\ arr' = arr
            /\ Ready' = Ready]_vars

\* C11 happens: embed_query raised in a query on a Ready retriever, which
\* still holds what its last initialize stored.
C11_Witness ==
    /\ last.op = "query"
    /\ last.outcome = "ProviderError"
    /\ lastInit.ok
    /\ Ready
    /\ docs.val = lastInit.docs

\* C12: on a retriever holding n documents, a successful query with
\* 1 <= k <= n returns the k best documents: no document left out scores
\* higher than a returned one, a document's score being the dot product of
\* the query vector with its own row; and each result carries the content
\* of the document at its index with that document's score.  For the rows
\* [1,0], [0,1], [0.9,0.1], the query vector [1,0] and k = 2, the results
\* are index 0, then index 2.
C12_TopKByDotProduct ==
    \A n \in 1 .. MaxSections :
        (QueriedHolding(n) /\ last.outcome = "ok" /\ 1 <= last.k /\ last.k <= n) =>
            LET chosen == { last.idx[i] : i \in 1 .. Len(last.idx) } IN
            /\ chosen \subseteq 1 .. n
            /\ \A x \in chosen, y \in (1 .. n) \ chosen :
                    Dot(last.qv, arr.val[x]) >= Dot(last.qv, arr.val[y])
            /\ Len(last.result) = Len(last.idx)
            /\ \A i \in 1 .. Len(last.idx) :
                    /\ last.result[i].page_content = docs.val[last.idx[i]].page_content
                    /\ last.result[i].similarity = Dot(last.qv, arr.val[last.idx[i]])
            /\ (arr.val = << <<10, 0>>, <<0, 10>>, <<9, 1>> >>
                    /\ last.qv = <<10, 0>> /\ last.k = 2)
                => (last.idx = <<1, 3>>
                    /\ last.result[1].similarity = 100
                    /\ last.result[2].similarity = 90)

\* C12 happens: the scenario's query, on the scenario's three rows.
C12_Witness ==
    /\ QueriedHolding(3)
    /\ last.outcome = "ok"
    /\ arr.val = << <<10, 0>>, <<0, 10>>, <<9, 1>> >>
    /\ last.qv = <<10, 0>>
    /\ last.k = 2
    /\ Len(last.result) = 2
====
